---- MODULE Spec2Model ----
(***************************************************************************)
(* out123: audio output interface (src/libout123/out123.h).                *)
(*                                                                         *)
(* The handle (audio_output_t) of the out123 API as a state machine: the   *)
(* playback protocol open -> start -> play/pause/continue/drop/drain ->    *)
(* stop -> close, in direct mode and with the optional buffer (a second    *)
(* execution context that owns the device and is fed through a ring        *)
(* buffer and a control channel).                                          *)
(***************************************************************************)
EXTENDS Integers, Sequences, FiniteSets, TLC

(* ------------------------------ bounds -------------------------------- *)

\* Total number of bytes the producer hands to out123_play in one run.
MaxBytes == 3
\* Capacity (bytes) of the ring buffer a non-zero out123_set_buffer asks for.
RingBytes == 2
\* Bytes the audio device itself holds before they reach the speakers.
DevCap == 1
\* Longest list of driver names given to out123_open.
MaxCand == 2
\* Largest floating point parameter value out123_param is given.
MaxParam == 1

(* --------------------------- enum out123_error ------------------------ *)

OUT123_ERR == -1
OUT123_OK == 0
OUT123_DOOM == 1
OUT123_BAD_DRIVER_NAME == 2
OUT123_BAD_DRIVER == 3
OUT123_NO_DRIVER == 4
OUT123_NOT_LIVE == 5
OUT123_DEV_PLAY == 6
OUT123_DEV_OPEN == 7
OUT123_BUFFER_ERROR == 8

(* --------------------------- enum out123_parms ------------------------ *)

OUT123_FLAGS == 1
OUT123_PRELOAD == 2
OUT123_GAIN == 3
OUT123_VERBOSE == 4
OUT123_DEVICEBUFFER == 5

\* The defined parameter codes; those with a floating point value.
ParamCodes == {OUT123_FLAGS, OUT123_PRELOAD, OUT123_GAIN, OUT123_VERBOSE,
               OUT123_DEVICEBUFFER}
FloatCodes == {OUT123_PRELOAD, OUT123_DEVICEBUFFER}
\* Codes outside the enumeration.
BadCodes == {OUT123_FLAGS - 1, OUT123_DEVICEBUFFER + 1}

(* --------------------------- enum out123_flags ------------------------ *)

OUT123_KEEP_PLAYING == 16

(* ------------- sample encodings used by out123_samplesize ------------- *)

MPG123_ENC_8 == 15
MPG123_ENC_16 == 64
MPG123_ENC_24 == 16384
MPG123_ENC_32 == 256
MPG123_ENC_FLOAT_32 == 512
MPG123_ENC_FLOAT_64 == 1024
MPG123_ENC_UNSIGNED_8 == 1
MPG123_ENC_SIGNED_16 == 208

RECURSIVE BitAnd(_, _)
BitAnd(a, b) ==
    IF a = 0 \/ b = 0 THEN 0
    ELSE (a % 2) * (b % 2) + 2 * BitAnd(a \div 2, b \div 2)

RECURSIVE BitOr(_, _)
BitOr(a, b) ==
    IF a = 0 THEN b
    ELSE IF b = 0 THEN a
    ELSE (IF a % 2 = 1 \/ b % 2 = 1 THEN 1 ELSE 0)
         + 2 * BitOr(a \div 2, b \div 2)

\* #define out123_samplesize(enc): the size of one PCM sample.
out123_samplesize(enc) ==
    IF BitAnd(enc, MPG123_ENC_8) # 0 THEN 1
    ELSE IF BitAnd(enc, MPG123_ENC_16) # 0 THEN 2
    ELSE IF BitAnd(enc, MPG123_ENC_24) # 0 THEN 3
    ELSE IF BitAnd(enc, MPG123_ENC_32) # 0 \/ enc = MPG123_ENC_FLOAT_32 THEN 4
    ELSE IF enc = MPG123_ENC_FLOAT_64 THEN 8
    ELSE 0

(* ------------------------- drivers and formats ------------------------ *)

Drivers == {"null", "dummy"}
NoDriver == "none"

RECURSIVE SeqsUpTo(_, _)
SeqsUpTo(S, n) ==
    IF n = 0 THEN {<<>>}
    ELSE LET shorter == SeqsUpTo(S, n - 1)
         IN  shorter \cup {Append(s, x) : s \in shorter, x \in S}

\* The driver name lists out123_open is called with.
CandidateLists == SeqsUpTo(Drivers, MaxCand)

Encodings == {MPG123_ENC_UNSIGNED_8, MPG123_ENC_SIGNED_16, MPG123_ENC_FLOAT_64}
Channels == {1}
Rates == {44100}
Formats == [encoding : Encodings, channels : Channels, rate : Rates]
NoFormat == [encoding |-> 0, channels |-> 0, rate |-> 0]

\* The backend's answer to a format query: the encodings the loaded module
\* plays at the given channel count and rate.
ModuleEncodings(d, channels, rate) ==
    IF d = "dummy" THEN {MPG123_ENC_UNSIGNED_8, MPG123_ENC_SIGNED_16}
    ELSE IF d = "null" THEN {MPG123_ENC_SIGNED_16}
    ELSE {}

RECURSIVE OrAll(_)
OrAll(S) ==
    IF S = {} THEN 0
    ELSE LET e == CHOOSE x \in S : TRUE IN BitOr(e, OrAll(S \ {e}))

\* One PCM frame: one sample per channel.
framesize(fmt) == out123_samplesize(fmt.encoding) * fmt.channels

\* A registry that goes through the list backwards.
RECURSIVE LastLoadable(_, _)
LastLoadable(cands, loadable) ==
    IF cands = <<>> THEN NoDriver
    ELSE IF cands[Len(cands)] \in loadable THEN cands[Len(cands)]
    ELSE LastLoadable(SubSeq(cands, 1, Len(cands) - 1), loadable)

\* The registry tries the candidates in list order; the first that loads
\* and accepts the device wins.
RECURSIVE FirstLoadable(_, _)
FirstLoadable(cands, loadable) ==
    IF cands = <<>> THEN NoDriver
    ELSE IF Head(cands) \in loadable THEN Head(cands)
    ELSE FirstLoadable(Tail(cands), loadable)

(* ------------------------------- state -------------------------------- *)

VARIABLES
    state,      \* playback state of the handle
    errcode,    \* last error recorded in the handle (out123_errcode)
    flags,      \* OUT123_FLAGS parameter
    preload,    \* OUT123_PRELOAD parameter
    gain,       \* OUT123_GAIN parameter
    verbose,    \* OUT123_VERBOSE parameter
    device_buffer, \* OUT123_DEVICEBUFFER parameter
    written,    \* per parameter code, the value of the last successful
                \* out123_param, the default when there was none
    loaded,     \* driver modules loaded and not yet released
    consumers,  \* live buffer processes, each with its ring buffer segment
    driver,     \* the loaded driver module, NoDriver when none
    format,     \* the format the device session is committed to
    sflags,     \* the flags the device session was opened with
    bufsize,    \* ring buffer capacity; 0: direct mode, no buffer process
    mem,        \* ring buffer data region
    wr,         \* write head: bytes the producer copied in
    rd,         \* read head: bytes the consumer took out
    dev,        \* device session: "closed", "open", "live", "paused"
    devbuf,     \* bytes the device holds that have not reached the speakers
    out,        \* bytes handed to the backend's write, in order
    sig,        \* control channel: the request the session owner has to apply
    arg,        \* argument of the request
    res,        \* status channel: result of the applied request
    pc,         \* the API call in progress, "idle" when none
    w,          \* the out123_play call in progress
    nsub,       \* bytes accepted from the producer so far (byte i is the i-th)
    dropped,    \* bytes discarded by drop/close before reaching the backend
    from,       \* playback state when the call in progress was issued
    mark,       \* when the call in progress was issued: bytes accepted so
                \* far (nsub), bytes resident in the ring buffer (fill) and
                \* the ring buffer's capacity (bufsize)
    env,        \* the modules that loaded at the last out123_open
    resumed,    \* nsub when the last out123_continue returned: where in the
                \* byte stream the pause was; -1: never paused
    last        \* the call that returned last: [op, ret, req, cut], cut: a
                \* concurrent stop or drop ended the write early

vars == <<state, errcode, flags, preload, gain, verbose, device_buffer,
          written, loaded, consumers, driver, format, sflags, bufsize, mem,
          wr, rd, dev,
          devbuf, out, sig, arg, res, pc, w, nsub, dropped, from, mark, env,
          resumed, last>>

parms == <<flags, preload, gain, verbose, device_buffer, written>>
handle == <<state, errcode, parms>>
session == <<driver, loaded, format, sflags, dev>>
ring == <<bufsize, consumers, mem, wr, rd>>
device == <<devbuf, out>>
channel == <<sig, arg, res>>
history == <<nsub, dropped, resumed>>
notes == <<from, mark, env>>

NoWrite == [active |-> FALSE, left |-> 0, done |-> 0, req |-> 0,
            cancel |-> FALSE]
NoCall == [op |-> "none", ret |-> 0, req |-> 0, cut |-> FALSE]
NoArg == <<>>

StartedStates == {"Started", "Playing", "Paused"}

EmptyMem(size) == [i \in 0 .. size - 1 |-> 0]

\* Bytes resident in the ring buffer, oldest first.
RingContents == [i \in 1 .. wr - rd |-> mem[(rd + i - 1) % bufsize]]
RingIds == {RingContents[i] : i \in 1 .. wr - rd}
Fill == wr - rd
Free == bufsize - Fill

\* What a call notes when it is issued.
Mark == [nsub |-> nsub, fill |-> Fill, bufsize |-> bufsize]

\* A count that reports the room left in the ring buffer.
out123_buffered_free == IF bufsize > 0 THEN Free ELSE 0

\* out123_buffered: bytes that reside in the library's buffer.
out123_buffered == IF bufsize > 0 THEN Fill ELSE 0

Init ==
    /\ state = "Closed"
    /\ errcode = OUT123_OK
    /\ flags = OUT123_KEEP_PLAYING
    /\ preload = 0
    /\ gain = 0
    /\ verbose = 0
    /\ device_buffer = 0
    /\ written = [c \in ParamCodes |->
                    IF c = OUT123_FLAGS THEN OUT123_KEEP_PLAYING ELSE 0]
    /\ loaded = 0
    /\ consumers = 0
    /\ driver = NoDriver
    /\ format = NoFormat
    /\ sflags = 0
    /\ bufsize = 0
    /\ mem = EmptyMem(0)
    /\ wr = 0
    /\ rd = 0
    /\ dev = "closed"
    /\ devbuf = 0
    /\ out = <<>>
    /\ sig = "none"
    /\ arg = NoArg
    /\ res = OUT123_OK
    /\ pc = "idle"
    /\ w = NoWrite
    /\ nsub = 0
    /\ dropped = {}
    /\ from = "Closed"
    /\ mark = [nsub |-> 0, fill |-> 0, bufsize |-> 0]
    /\ env = {}
    /\ resumed = -1
    /\ last = NoCall

(* ----------------------- the call/apply/return frame ------------------ *)

\* An API call that targets the device session: the request goes to the
\* session's owner (the buffer process when there is one, the caller's own
\* context otherwise) and the caller waits for the result.
Call(op, a) ==
    /\ pc = "idle"
    /\ pc' = op
    /\ sig' = op
    /\ arg' = a
    /\ res' = OUT123_OK
    /\ errcode' = OUT123_OK
    /\ from' = state
    /\ mark' = Mark
    /\ env' = {}
    /\ last' = NoCall

Applied(r) ==
    /\ sig' = "none"
    /\ res' = r
    /\ UNCHANGED arg

Returned(op, r) ==
    /\ pc = op
    /\ sig = "none"
    /\ pc' = "idle"
    /\ last' = [op |-> op, ret |-> r, req |-> 0, cut |-> FALSE]
    /\ UNCHANGED <<channel, notes>>

(* ------------------------------ out123_open --------------------------- *)

\* int out123_open(ao, driver, device): load a driver for the device.
out123_open(cands) ==
    /\ state = "Closed"
    /\ ~w.active
    /\ Call("open", cands)
    /\ UNCHANGED <<state, parms, session, ring, device, w, history>>

\* The registry tries the names in turn; which modules load and accept the
\* device is the environment's.
DeviceSession_open ==
    /\ sig = "open"
    /\ \E loadable \in SUBSET Drivers :
          LET d == FirstLoadable(arg, loadable) IN
          /\ env' = loadable
          /\ IF d # NoDriver
             THEN /\ driver' = d
                  /\ loaded' = loaded + 1
                  /\ sflags' = flags
                  /\ dev' = "open"
                  /\ Applied(OUT123_OK)
             ELSE /\ UNCHANGED <<driver, loaded, sflags, dev>>
                  /\ Applied(OUT123_NO_DRIVER)
    /\ UNCHANGED <<handle, format, ring, device, pc, w, history, from, mark,
                   last>>

out123_open_return ==
    /\ Returned("open", IF res = OUT123_OK THEN 0 ELSE OUT123_ERR)
    /\ state' = IF res = OUT123_OK THEN "Opened" ELSE state
    /\ errcode' = res
    /\ UNCHANGED <<parms, session, ring, device, w, history>>

(* ------------------------------ out123_close -------------------------- *)

\* void out123_close(ao): close the current output device and driver.
out123_close ==
    /\ ~w.active
    /\ Call("close", NoArg)
    /\ UNCHANGED <<state, parms, session, ring, device, w, history>>

\* A close that releases a module whether or not one is loaded.
DeviceSession_close_releases_always ==
    /\ sig \in {"close", "del"}
    /\ dropped' = dropped \cup RingIds
    /\ rd' = wr
    /\ devbuf' = 0
    /\ dev' = "closed"
    /\ driver' = NoDriver
    /\ loaded' = loaded - 1
    /\ format' = NoFormat
    /\ sflags' = 0
    /\ Applied(OUT123_OK)
    /\ UNCHANGED <<handle, bufsize, mem, wr, out, pc, w, nsub, resumed, notes,
                   last, consumers>>

\* A close that waits for the pending data as a stop does.
DeviceSession_close_drains ==
    /\ sig \in {"close", "del"}
    /\ Fill = 0
    /\ devbuf = 0
    /\ dev' = "closed"
    /\ driver' = NoDriver
    /\ loaded' = IF driver # NoDriver THEN loaded - 1 ELSE loaded
    /\ format' = NoFormat
    /\ sflags' = 0
    /\ Applied(OUT123_OK)
    /\ UNCHANGED <<handle, ring, device, pc, w, history, notes, last>>

\* Immediate teardown: what has not been forwarded is discarded. The
\* module is released if one is loaded.
DeviceSession_close ==
    /\ sig \in {"close", "del"}
    /\ dropped' = dropped \cup RingIds
    /\ rd' = wr
    /\ devbuf' = 0
    /\ dev' = "closed"
    /\ driver' = NoDriver
    /\ loaded' = IF driver # NoDriver THEN loaded - 1 ELSE loaded
    /\ format' = NoFormat
    /\ sflags' = 0
    /\ Applied(OUT123_OK)
    /\ UNCHANGED <<handle, bufsize, mem, wr, out, pc, w, nsub, resumed, notes,
                   last,
                   consumers>>

out123_close_return ==
    /\ Returned("close", 0)
    /\ state' = "Closed"
    /\ UNCHANGED <<errcode, parms, session, ring, device, w, history>>

(* ------------------------------- out123_del --------------------------- *)

\* void out123_del(ao): if there is an output module/device open, it is
\* closed as quickly as possible; then the buffer process is ended and the
\* handle is freed. No call follows on a deleted handle.
out123_del ==
    /\ ~w.active
    /\ Call("del", NoArg)
    /\ UNCHANGED <<state, parms, session, ring, device, w, history>>

out123_del_return ==
    /\ pc = "del"
    /\ sig = "none"
    /\ pc' = "deleted"
    /\ state' = "Closed"
    /\ bufsize' = 0
    /\ consumers' = consumers - (IF bufsize > 0 THEN 1 ELSE 0)
    /\ mem' = EmptyMem(0)
    /\ wr' = 0
    /\ rd' = 0
    /\ last' = [op |-> "del", ret |-> 0, req |-> 0, cut |-> FALSE]
    /\ UNCHANGED <<errcode, parms, session, device, channel, w, history,
                   notes>>

(* ------------------------------ out123_start -------------------------- *)

\* int out123_start(ao, encoding, channels, rate)
out123_start(fmt) ==
    /\ state = "Opened"
    /\ ~w.active
    /\ Call("start", fmt)
    /\ UNCHANGED <<state, parms, session, ring, device, w, history>>

\* A start that commits to the format before the backend has accepted it.
DeviceSession_start_commits_first ==
    /\ sig = "start"
    /\ format' = arg
    /\ IF arg.encoding \in ModuleEncodings(driver, arg.channels, arg.rate)
       THEN /\ dev' = "live"
            /\ Applied(OUT123_OK)
       ELSE /\ UNCHANGED dev
            /\ Applied(OUT123_DEV_OPEN)
    /\ UNCHANGED <<handle, driver, sflags, ring, device, pc, w, history, notes,
                   last,
                   loaded>>

\* The backend accepts or rejects the combination.
DeviceSession_start ==
    /\ sig = "start"
    /\ IF arg.encoding \in ModuleEncodings(driver, arg.channels, arg.rate)
       THEN /\ format' = arg
            /\ dev' = "live"
            /\ Applied(OUT123_OK)
       ELSE /\ UNCHANGED <<format, dev>>
            /\ Applied(OUT123_DEV_OPEN)
    /\ UNCHANGED <<handle, driver, sflags, ring, device, pc, w, history, notes,
                   last,
                   loaded>>

out123_start_return ==
    /\ Returned("start", IF res = OUT123_OK THEN 0 ELSE OUT123_ERR)
    /\ state' = IF res = OUT123_OK THEN "Started" ELSE state
    /\ errcode' = res
    /\ UNCHANGED <<parms, session, ring, device, w, history>>

(* ------------------------- out123_pause / continue -------------------- *)

\* void out123_pause(ao): interrupt playback without waiting for the data
\* pushed to the buffer being sent to the audio device.
out123_pause ==
    /\ state \in {"Started", "Playing"}
    /\ ~w.active
    /\ Call("pause", NoArg)
    /\ UNCHANGED <<state, parms, session, ring, device, w, history>>

\* A pause that empties the ring buffer.
DeviceSession_pause_flushes ==
    /\ sig = "pause"
    /\ dev' = "paused"
    /\ rd' = wr
    /\ Applied(OUT123_OK)
    /\ UNCHANGED <<handle, driver, format, sflags, bufsize, mem, wr, device, pc,
                   w, history, notes, last,
                   loaded,
                   consumers>>

\* The device stays open, able to resume; buffered data stays where it is.
DeviceSession_pause ==
    /\ sig = "pause"
    /\ dev' = "paused"
    /\ Applied(OUT123_OK)
    /\ UNCHANGED <<handle, driver, format, sflags, ring, device, pc, w,
                   history, notes, last,
                   loaded>>

out123_pause_return ==
    /\ Returned("pause", 0)
    /\ state' = "Paused"
    /\ UNCHANGED <<errcode, parms, session, ring, device, w, history>>

\* void out123_continue(ao): the counterpart to out123_pause.
out123_continue ==
    /\ state = "Paused"
    /\ ~w.active
    /\ Call("continue", NoArg)
    /\ UNCHANGED <<state, parms, session, ring, device, w, history>>

DeviceSession_continue ==
    /\ sig = "continue"
    /\ dev' = "live"
    /\ Applied(OUT123_OK)
    /\ UNCHANGED <<handle, driver, format, sflags, ring, device, pc, w,
                   history, notes, last,
                   loaded>>

\* Also the return of the out123_continue that out123_play triggers: the
\* pending write then goes on.
out123_continue_return ==
    /\ Returned("continue", 0)
    /\ state' = "Started"
    /\ resumed' = nsub
    /\ UNCHANGED <<errcode, parms, session, ring, device, w, nsub, dropped>>

(* ------------------------------ out123_stop --------------------------- *)

\* A stop that leaves a write in progress to itself.
out123_stop_no_cancel ==
    /\ state \in StartedStates
    /\ w.active => (bufsize > 0 /\ ~w.cancel)
    /\ Call("stop", NoArg)
    /\ UNCHANGED <<state, parms, session, ring, device, w, history>>

\* void out123_stop(ao): waits for pending audio data to drain to the
\* speakers. With the buffer, a stop issued while a write is in progress
\* cuts the write short; direct mode has no such concurrency.
out123_stop ==
    /\ state \in StartedStates
    /\ w.active => (bufsize > 0 /\ ~w.cancel)
    /\ Call("stop", NoArg)
    /\ w' = IF w.active THEN [w EXCEPT !.cancel = TRUE] ELSE w
    /\ UNCHANGED <<state, parms, session, ring, device, history>>

\* A stop that does not wait for the pending data.
DeviceSession_stop_no_wait ==
    /\ sig \in {"stop", "query_stop"}
    /\ dev' = "open"
    /\ format' = NoFormat
    /\ Applied(OUT123_OK)
    /\ UNCHANGED <<handle, driver, sflags, ring, device, pc, w, history, notes,
                   last,
                   loaded>>

\* A stop that throws the pending data away.
DeviceSession_stop_discards ==
    /\ sig \in {"stop", "query_stop"}
    /\ rd' = wr
    /\ devbuf' = 0
    /\ dev' = "open"
    /\ format' = NoFormat
    /\ Applied(OUT123_OK)
    /\ UNCHANGED <<handle, driver, sflags, bufsize, mem, wr, out, pc, w,
                   history, notes, last,
                   loaded,
                   consumers>>

DeviceSession_stop ==
    /\ sig \in {"stop", "query_stop"}
    /\ Fill = 0
    /\ devbuf = 0
    /\ dev' = "open"
    /\ format' = NoFormat
    /\ Applied(OUT123_OK)
    /\ UNCHANGED <<handle, driver, sflags, ring, device, pc, w, history, notes,
                   last,
                   loaded>>

out123_stop_return ==
    /\ Returned("stop", 0)
    /\ state' = "Opened"
    /\ UNCHANGED <<errcode, parms, session, ring, device, w, history>>

(* ------------------------------ out123_drop --------------------------- *)

\* void out123_drop(ao): drop any buffered data, making the next provided
\* data play right away. With the buffer, a drop issued while a write is in
\* progress cuts the write short; direct mode has no such concurrency.
out123_drop ==
    /\ state \in StartedStates
    /\ w.active => (bufsize > 0 /\ ~w.cancel)
    /\ Call("drop", NoArg)
    /\ w' = IF w.active THEN [w EXCEPT !.cancel = TRUE] ELSE w
    /\ UNCHANGED <<state, parms, session, ring, device, history>>

\* A drop that flushes the device and leaves the ring buffer as it is.
DeviceSession_drop_device_only ==
    /\ sig = "drop"
    /\ devbuf' = 0
    /\ Applied(OUT123_OK)
    /\ UNCHANGED <<handle, session, ring, out, pc, w, history, notes, last>>

\* A drop that empties the ring buffer by taking the write head back to the
\* read head.
DeviceSession_drop_rewinds_write ==
    /\ sig = "drop"
    /\ dropped' = dropped \cup RingIds
    /\ wr' = rd
    /\ devbuf' = 0
    /\ Applied(OUT123_OK)
    /\ UNCHANGED <<handle, session, bufsize, consumers, mem, rd, out, pc, w,
                   nsub, resumed, notes, last>>

\* The session owner empties the ring buffer (the read head catches up with
\* the write head) and flushes the device.
DeviceSession_drop ==
    /\ sig = "drop"
    /\ dropped' = dropped \cup RingIds
    /\ rd' = wr
    /\ devbuf' = 0
    /\ Applied(OUT123_OK)
    /\ UNCHANGED <<handle, session, bufsize, mem, wr, out, pc, w, nsub,
                   resumed, notes, last,
                   consumers>>

out123_drop_return ==
    /\ Returned("drop", 0)
    /\ UNCHANGED <<handle, session, ring, device, w, history>>

(* ------------------------------ out123_drain -------------------------- *)

\* void out123_drain(ao): wait until all data went to the hardware. This
\* does not imply out123_stop().
out123_drain ==
    /\ state \in StartedStates
    /\ ~w.active
    /\ Call("drain", NoArg)
    /\ UNCHANGED <<state, parms, session, ring, device, w, history>>

\* A drain that is acknowledged without waiting for the buffer.
DeviceSession_drain_no_wait ==
    /\ sig = "drain"
    /\ Applied(OUT123_OK)
    /\ UNCHANGED <<handle, session, ring, device, pc, w, history, notes, last>>

DeviceSession_drain ==
    /\ sig = "drain"
    /\ Fill = 0
    /\ devbuf = 0
    /\ Applied(OUT123_OK)
    /\ UNCHANGED <<handle, session, ring, device, pc, w, history, notes, last>>

out123_drain_return ==
    /\ Returned("drain", 0)
    /\ UNCHANGED <<handle, session, ring, device, w, history>>

(* ------------------------------ out123_play --------------------------- *)

Min(a, b) == IF a < b THEN a ELSE b

\* The bytes the producer hands over are numbered in the order it submits
\* them: the next k bytes accepted are nsub + 1 .. nsub + k.
NextBytes(k) == [i \in 1 .. k |-> nsub + i]

KeepPlaying == BitAnd(sflags, OUT123_KEEP_PLAYING) # 0

\* The playback state after a write that moved `moved` bytes.
AfterWrite(moved) ==
    IF state = "Started" /\ moved > 0 THEN "Playing" ELSE state

PlayReturn(count) ==
    /\ last' = [op |-> "play", ret |-> count, req |-> w.req, cut |-> w.cancel]
    /\ w' = NoWrite
    /\ state' = AfterWrite(count)

\* A play that feeds a paused stream without continuing it.
out123_play_no_continue(bytes) ==
    /\ pc = "idle"
    /\ ~w.active
    /\ state \in StartedStates
    /\ bytes \in 1 .. MaxBytes - nsub
    /\ bytes % framesize(format) = 0
    /\ w' = [active |-> TRUE, left |-> bytes, done |-> 0, req |-> bytes,
             cancel |-> FALSE]
    /\ errcode' = OUT123_OK
    /\ from' = state
    /\ mark' = Mark
    /\ env' = {}
    /\ arg' = NoArg
    /\ res' = OUT123_OK
    /\ last' = NoCall
    /\ UNCHANGED <<state, parms, session, ring, device, history, pc, sig>>

\* size_t out123_play(ao, buffer, bytes): hand over data for playback.
\* Feeding data while paused triggers out123_continue() first.
out123_play(bytes) ==
    /\ pc = "idle"
    /\ ~w.active
    /\ state \in StartedStates
    /\ bytes \in 1 .. MaxBytes - nsub
    /\ bytes % framesize(format) = 0
    /\ w' = [active |-> TRUE, left |-> bytes, done |-> 0, req |-> bytes,
             cancel |-> FALSE]
    /\ errcode' = OUT123_OK
    /\ from' = state
    /\ mark' = Mark
    /\ env' = {}
    /\ arg' = NoArg
    /\ res' = OUT123_OK
    /\ last' = NoCall
    /\ IF state = "Paused"
       THEN pc' = "continue" /\ sig' = "continue"
       ELSE UNCHANGED <<pc, sig>>
    /\ UNCHANGED <<state, parms, session, ring, device, history>>

\* Without a live device there is nothing to play to.
out123_play_not_live ==
    /\ pc = "idle"
    /\ ~w.active
    /\ state \in {"Closed", "Opened"}
    /\ errcode' = OUT123_NOT_LIVE
    /\ from' = state
    /\ last' = [op |-> "play", ret |-> 0, req |-> 1, cut |-> FALSE]
    /\ UNCHANGED <<state, parms, session, ring, device, channel, pc, w,
                   history, mark, env>>

\* A write that returns after one write of the backend whatever the flags.
out123_play_write_once ==
    /\ w.active /\ ~w.cancel
    /\ pc = "idle"
    /\ bufsize = 0
    /\ \E consumed \in 0 .. Min(w.left, DevCap - devbuf) :
          /\ out' = out \o NextBytes(consumed)
          /\ devbuf' = devbuf + consumed
          /\ nsub' = nsub + consumed
          /\ PlayReturn(w.done + consumed)
    /\ UNCHANGED <<errcode, parms, session, ring, channel, pc, dropped,
                   resumed, notes>>

\* Direct mode: one write of the backend. It consumes what the device has
\* room for, or less when a signal interrupts it; with OUT123_KEEP_PLAYING
\* the call goes on in a loop until the data is done with.
out123_play_write ==
    /\ w.active /\ ~w.cancel
    /\ pc = "idle"
    /\ bufsize = 0
    /\ \E consumed \in 0 .. Min(w.left, DevCap - devbuf) :
          /\ consumed > 0 \/ ~KeepPlaying
          /\ out' = out \o NextBytes(consumed)
          /\ devbuf' = devbuf + consumed
          /\ nsub' = nsub + consumed
          /\ IF consumed = w.left \/ ~KeepPlaying
             THEN PlayReturn(w.done + consumed)
             ELSE /\ w' = [w EXCEPT !.left = @ - consumed,
                                    !.done = @ + consumed]
                  /\ UNCHANGED <<state, last>>
    /\ UNCHANGED <<errcode, parms, session, ring, channel, pc, dropped,
                   resumed, notes>>

\* Direct mode: the backend's write fails with a real device error.
out123_play_error ==
    /\ w.active /\ ~w.cancel
    /\ pc = "idle"
    /\ bufsize = 0
    /\ errcode' = OUT123_DEV_PLAY
    /\ PlayReturn(w.done)
    /\ UNCHANGED <<parms, session, ring, device, channel, pc, history, notes>>

\* Buffered mode: copy into the free space of the ring buffer; the caller
\* waits while the buffer is full.
buffer_write ==
    /\ w.active /\ ~w.cancel
    /\ pc = "idle"
    /\ bufsize > 0
    /\ Free > 0
    /\ mem' = [mem EXCEPT ![wr % bufsize] = nsub + 1]
    /\ wr' = wr + 1
    /\ nsub' = nsub + 1
    /\ IF w.left = 1
       THEN PlayReturn(w.done + 1)
       ELSE /\ w' = [w EXCEPT !.left = @ - 1, !.done = @ + 1]
            /\ UNCHANGED <<state, last>>
    /\ UNCHANGED <<errcode, parms, session, bufsize, rd, device, channel, pc,
                   dropped, resumed, notes,
                   consumers>>

\* A write cut short by a concurrent stop or drop returns what it moved;
\* fewer bytes than given is an error, recorded in the handle.
out123_play_cancelled ==
    /\ w.active /\ w.cancel
    /\ pc = "idle"
    /\ errcode' = OUT123_BUFFER_ERROR
    /\ PlayReturn(w.done)
    /\ UNCHANGED <<parms, session, ring, device, channel, pc, history, notes>>

(* --------------------------- the buffer process ----------------------- *)

\* A consumer that takes the byte under the write head: newest first.
buffer_loop_newest_first ==
    /\ bufsize > 0
    /\ Fill > 0
    /\ devbuf < DevCap
    /\ dev = "live" \/ sig \in {"stop", "query_stop", "drain"}
    /\ out' = Append(out, mem[(wr - 1) % bufsize])
    /\ rd' = rd + 1
    /\ devbuf' = devbuf + 1
    /\ UNCHANGED <<handle, session, bufsize, mem, wr, channel, pc, w, history,
                   notes, last,
                   consumers>>

\* The consumer loop pulls from the ring buffer and forwards to its device
\* session's write while the stream plays, and to flush what is pending
\* when a stop or a drain is requested.
buffer_loop ==
    /\ bufsize > 0
    /\ Fill > 0
    /\ devbuf < DevCap
    /\ dev = "live" \/ sig \in {"stop", "query_stop", "drain"}
    /\ out' = Append(out, mem[rd % bufsize])
    /\ rd' = rd + 1
    /\ devbuf' = devbuf + 1
    /\ UNCHANGED <<handle, session, bufsize, mem, wr, channel, pc, w, history,
                   notes, last,
                   consumers>>

\* The device plays what it holds.
DevicePlay ==
    /\ devbuf > 0
    /\ devbuf' = devbuf - 1
    /\ UNCHANGED <<handle, session, ring, out, channel, pc, w, history, notes,
                   last>>

(* -------------------------- out123_get_encodings ---------------------- *)

\* A query that does not stop a started stream first.
out123_get_encodings_no_stop(channels, rate) ==
    /\ state \in {"Opened"} \cup StartedStates
    /\ ~w.active
    /\ Call("query", [channels |-> channels, rate |-> rate])
    /\ UNCHANGED <<state, parms, session, ring, device, w, history>>

\* int out123_get_encodings(ao, channels, rate): this implies out123_stop()
\* to enter query mode.
out123_get_encodings(channels, rate) ==
    /\ state \in {"Opened"} \cup StartedStates
    /\ ~w.active
    /\ Call(IF state = "Opened" THEN "query" ELSE "query_stop",
            [channels |-> channels, rate |-> rate])
    /\ UNCHANGED <<state, parms, session, ring, device, w, history>>

\* The implied stop is done: now the query itself.
out123_get_encodings_query ==
    /\ pc = "query_stop"
    /\ sig = "none"
    /\ state' = "Opened"
    /\ pc' = "query"
    /\ sig' = "query"
    /\ UNCHANGED <<errcode, parms, session, ring, device, arg, res, w,
                   history, notes, last>>

\* The backend answers with the encodings it supports, or fails.
DeviceSession_encodings ==
    /\ sig = "query"
    /\ \E failure \in BOOLEAN :
          LET encs == ModuleEncodings(driver, arg.channels, arg.rate) IN
          Applied(IF failure \/ encs = {} THEN OUT123_ERR ELSE OrAll(encs))
    /\ UNCHANGED <<handle, session, ring, device, pc, w, history, notes, last>>

out123_get_encodings_return ==
    /\ Returned("query", res)
    /\ errcode' = IF res = OUT123_ERR THEN OUT123_DEV_OPEN ELSE errcode
    /\ UNCHANGED <<state, parms, session, ring, device, w, history>>

(* --------------------------- out123_set_buffer ------------------------ *)

\* A set_buffer that leaves the device alone when it disables a buffer that
\* does not exist.
out123_set_buffer_lazy(buffer_bytes) ==
    /\ pc = "idle"
    /\ ~w.active
    /\ \E failure \in BOOLEAN :
          /\ failure => buffer_bytes > 0
          /\ bufsize' = IF failure THEN 0 ELSE buffer_bytes
          /\ consumers' = consumers - (IF bufsize > 0 THEN 1 ELSE 0)
                              + (IF bufsize' > 0 THEN 1 ELSE 0)
          /\ mem' = EmptyMem(bufsize')
          /\ errcode' = IF failure THEN OUT123_DOOM ELSE OUT123_OK
          /\ last' = [op |-> "set_buffer",
                      ret |-> IF failure THEN OUT123_ERR ELSE 0, req |-> 0,
                      cut |-> FALSE]
    /\ arg' = [buffer_bytes |-> buffer_bytes]
    /\ from' = state
    /\ mark' = Mark
    /\ dropped' = dropped \cup RingIds
    /\ wr' = 0
    /\ rd' = 0
    /\ devbuf' = 0
    /\ IF buffer_bytes = 0 /\ bufsize = 0
       THEN UNCHANGED <<session, state>>
       ELSE /\ dev' = "closed"
            /\ driver' = NoDriver
            /\ loaded' = IF driver # NoDriver THEN loaded - 1 ELSE loaded
            /\ format' = NoFormat
            /\ sflags' = 0
            /\ state' = "Closed"
    /\ UNCHANGED <<parms, out, sig, res, pc, w, nsub, resumed, env>>

\* A set_buffer that takes size zero as nothing to do for the buffer.
out123_set_buffer_keeps_on_zero(buffer_bytes) ==
    /\ pc = "idle"
    /\ ~w.active
    /\ \E failure \in BOOLEAN :
          /\ failure => buffer_bytes > 0
          /\ bufsize' = IF failure THEN 0
                        ELSE IF buffer_bytes = 0 THEN bufsize
                        ELSE buffer_bytes
          /\ consumers' = consumers - (IF bufsize > 0 THEN 1 ELSE 0)
                              + (IF bufsize' > 0 THEN 1 ELSE 0)
          /\ mem' = EmptyMem(bufsize')
          /\ errcode' = IF failure THEN OUT123_DOOM ELSE OUT123_OK
          /\ last' = [op |-> "set_buffer",
                      ret |-> IF failure THEN OUT123_ERR ELSE 0, req |-> 0,
                      cut |-> FALSE]
    /\ arg' = [buffer_bytes |-> buffer_bytes]
    /\ from' = state
    /\ mark' = Mark
    /\ dropped' = dropped \cup RingIds
    /\ wr' = 0
    /\ rd' = 0
    /\ devbuf' = 0
    /\ dev' = "closed"
    /\ driver' = NoDriver
    /\ loaded' = IF driver # NoDriver THEN loaded - 1 ELSE loaded
    /\ format' = NoFormat
    /\ sflags' = 0
    /\ state' = "Closed"
    /\ UNCHANGED <<parms, out, sig, res, pc, w, nsub, resumed, env>>

\* A set_buffer that starts a buffer process without ending the one that
\* is there.
out123_set_buffer_no_exit(buffer_bytes) ==
    /\ pc = "idle"
    /\ ~w.active
    /\ \E failure \in BOOLEAN :
          /\ failure => buffer_bytes > 0
          /\ bufsize' = IF failure THEN 0 ELSE buffer_bytes
          /\ consumers' = consumers
                              + (IF bufsize' > 0 THEN 1 ELSE 0)
          /\ mem' = EmptyMem(bufsize')
          /\ errcode' = IF failure THEN OUT123_DOOM ELSE OUT123_OK
          /\ last' = [op |-> "set_buffer",
                      ret |-> IF failure THEN OUT123_ERR ELSE 0, req |-> 0,
                      cut |-> FALSE]
    /\ arg' = [buffer_bytes |-> buffer_bytes]
    /\ from' = state
    /\ mark' = Mark
    /\ dropped' = dropped \cup RingIds
    /\ wr' = 0
    /\ rd' = 0
    /\ devbuf' = 0
    /\ dev' = "closed"
    /\ driver' = NoDriver
    /\ loaded' = IF driver # NoDriver THEN loaded - 1 ELSE loaded
    /\ format' = NoFormat
    /\ sflags' = 0
    /\ state' = "Closed"
    /\ UNCHANGED <<parms, out, sig, res, pc, w, nsub, resumed, env>>

\* int out123_set_buffer(ao, buffer_bytes): this always kills any currently
\* active output module/device, even when it just disables the buffer and
\* there is no buffer. The buffer process that is there, with its ring
\* buffer, is ended first; a non-zero size then starts a new one, and the
\* fork or the allocation may fail. Zero disables the buffer.
out123_set_buffer(buffer_bytes) ==
    /\ pc = "idle"
    /\ ~w.active
    /\ \E failure \in BOOLEAN :
          /\ failure => buffer_bytes > 0
          /\ bufsize' = IF failure THEN 0 ELSE buffer_bytes
          /\ consumers' = consumers - (IF bufsize > 0 THEN 1 ELSE 0)
                              + (IF bufsize' > 0 THEN 1 ELSE 0)
          /\ mem' = EmptyMem(bufsize')
          /\ errcode' = IF failure THEN OUT123_DOOM ELSE OUT123_OK
          /\ last' = [op |-> "set_buffer",
                      ret |-> IF failure THEN OUT123_ERR ELSE 0, req |-> 0,
                      cut |-> FALSE]
    /\ arg' = [buffer_bytes |-> buffer_bytes]
    /\ from' = state
    /\ mark' = Mark
    /\ dropped' = dropped \cup RingIds
    /\ wr' = 0
    /\ rd' = 0
    /\ devbuf' = 0
    /\ dev' = "closed"
    /\ driver' = NoDriver
    /\ loaded' = IF driver # NoDriver THEN loaded - 1 ELSE loaded
    /\ format' = NoFormat
    /\ sflags' = 0
    /\ state' = "Closed"
    /\ UNCHANGED <<parms, out, sig, res, pc, w, nsub, resumed, env>>

(* ------------------------------ out123_param -------------------------- *)

\* The values out123_param is given: for value, none or one of the flag
\* bits; for fvalue, small numbers of units.
IntValues == {0, OUT123_KEEP_PLAYING}
FloatValues == 0 .. MaxParam

\* An out123_param that stores the integer argument whatever the code.
out123_param_integer_only(code, value, fvalue) ==
    /\ pc = "idle"
    /\ ~w.active
    /\ from' = state
    /\ arg' = [code |-> code, value |-> value, fvalue |-> fvalue]
    /\ IF code \in ParamCodes
       THEN /\ flags' = IF code = OUT123_FLAGS THEN value ELSE flags
            /\ preload' = IF code = OUT123_PRELOAD THEN value ELSE preload
            /\ gain' = IF code = OUT123_GAIN THEN value ELSE gain
            /\ verbose' = IF code = OUT123_VERBOSE THEN value ELSE verbose
            /\ device_buffer' =
                  IF code = OUT123_DEVICEBUFFER THEN value ELSE device_buffer
            /\ written' = [written EXCEPT ![code] =
                              IF code \in FloatCodes THEN fvalue ELSE value]
            /\ errcode' = OUT123_OK
            /\ last' = [op |-> "param", ret |-> 0, req |-> 0, cut |-> FALSE]
       ELSE /\ last' = [op |-> "param", ret |-> OUT123_ERR, req |-> 0,
                        cut |-> FALSE]
            /\ UNCHANGED <<parms, errcode>>
    /\ UNCHANGED <<state, session, ring, device, sig, res, pc, w, history,
                   mark, env>>

\* int out123_param(ao, code, value, fvalue): integer parameters take value,
\* floating point parameters take fvalue. The parameters only change what
\* happens on the next out123_open. A code outside enum out123_parms is an
\* error (the enumeration of error codes has none of its own for it).
out123_param(code, value, fvalue) ==
    /\ pc = "idle"
    /\ ~w.active
    /\ from' = state
    /\ arg' = [code |-> code, value |-> value, fvalue |-> fvalue]
    /\ IF code \in ParamCodes
       THEN /\ flags' = IF code = OUT123_FLAGS THEN value ELSE flags
            /\ preload' = IF code = OUT123_PRELOAD THEN fvalue ELSE preload
            /\ gain' = IF code = OUT123_GAIN THEN value ELSE gain
            /\ verbose' = IF code = OUT123_VERBOSE THEN value ELSE verbose
            /\ device_buffer' =
                  IF code = OUT123_DEVICEBUFFER THEN fvalue ELSE device_buffer
            /\ written' = [written EXCEPT ![code] =
                              IF code \in FloatCodes THEN fvalue ELSE value]
            /\ errcode' = OUT123_OK
            /\ last' = [op |-> "param", ret |-> 0, req |-> 0, cut |-> FALSE]
       ELSE /\ last' = [op |-> "param", ret |-> OUT123_ERR, req |-> 0,
                        cut |-> FALSE]
            /\ UNCHANGED <<parms, errcode>>
    /\ UNCHANGED <<state, session, ring, device, sig, res, pc, w, history,
                   mark, env>>

\* int out123_param(ao, OUT123_FLAGS, value, fvalue)
out123_param_flags(value) == out123_param(OUT123_FLAGS, value, 0)

\* int out123_getparam(ao, code, ret_value, ret_fvalue): both outputs are
\* written, the one that is not the parameter's with zero.
out123_getparam(code) ==
    /\ pc = "idle"
    /\ ~w.active
    /\ from' = state
    /\ IF code \in ParamCodes
       THEN /\ arg' = [code |-> code,
                       value |-> CASE code = OUT123_FLAGS -> flags
                                   [] code = OUT123_GAIN -> gain
                                   [] code = OUT123_VERBOSE -> verbose
                                   [] OTHER -> 0,
                       fvalue |-> CASE code = OUT123_PRELOAD -> preload
                                    [] code = OUT123_DEVICEBUFFER ->
                                          device_buffer
                                    [] OTHER -> 0]
            /\ last' = [op |-> "getparam", ret |-> 0, req |-> 0,
                        cut |-> FALSE]
       ELSE /\ arg' = [code |-> code, value |-> 0, fvalue |-> 0]
            /\ last' = [op |-> "getparam", ret |-> OUT123_ERR, req |-> 0,
                        cut |-> FALSE]
    /\ UNCHANGED <<handle, session, ring, device, sig, res, pc, w, history,
                   mark, env>>

(* ------------------------------ specification ------------------------- *)

Next ==
    \/ \E cands \in CandidateLists : out123_open(cands)
    \/ DeviceSession_open
    \/ out123_open_return
    \/ out123_close
    \/ DeviceSession_close
    \/ out123_close_return
    \/ out123_del
    \/ out123_del_return
    \/ \E fmt \in Formats : out123_start(fmt)
    \/ DeviceSession_start
    \/ out123_start_return
    \/ out123_pause
    \/ DeviceSession_pause
    \/ out123_pause_return
    \/ out123_continue
    \/ DeviceSession_continue
    \/ out123_continue_return
    \/ out123_stop
    \/ DeviceSession_stop
    \/ out123_stop_return
    \/ out123_drop
    \/ DeviceSession_drop
    \/ out123_drop_return
    \/ out123_drain
    \/ DeviceSession_drain
    \/ out123_drain_return
    \/ \E bytes \in 1 .. MaxBytes : out123_play(bytes)
    \/ out123_play_not_live
    \/ out123_play_write
    \/ out123_play_error
    \/ buffer_write
    \/ out123_play_cancelled
    \/ buffer_loop
    \/ DevicePlay
    \/ \E c \in Channels, r \in Rates : out123_get_encodings(c, r)
    \/ out123_get_encodings_query
    \/ DeviceSession_encodings
    \/ out123_get_encodings_return
    \/ \E size \in {0, RingBytes} : out123_set_buffer(size)
    \/ \E value \in {0, OUT123_KEEP_PLAYING} : out123_param_flags(value)

\* The calls that do not move data, with the whole of out123_param and
\* out123_getparam.
ParamNext ==
    \/ \E cands \in {<<"dummy">>} : out123_open(cands)
    \/ DeviceSession_open
    \/ out123_open_return
    \/ out123_close
    \/ DeviceSession_close
    \/ out123_close_return
    \/ \E fmt \in Formats : fmt.encoding = MPG123_ENC_SIGNED_16
                              /\ out123_start(fmt)
    \/ DeviceSession_start
    \/ out123_start_return
    \/ out123_stop
    \/ DeviceSession_stop
    \/ out123_stop_return
    \/ \E size \in {0, RingBytes} : out123_set_buffer(size)
    \/ \E code \in ParamCodes \cup BadCodes, value \in IntValues,
          fvalue \in FloatValues : out123_param(code, value, fvalue)
    \/ \E code \in ParamCodes \cup BadCodes : out123_getparam(code)

Spec == Init /\ [][Next]_vars

\* The parameter store under the calls that open, start, stop and close the
\* device and set the buffer.
ParamSpec == Init /\ [][ParamNext]_vars

\* The application is free to make no further call; a call in progress is
\* carried on: the caller's loop runs, the session owner serves the request
\* it was sent, the consumer loop forwards what it may, the device plays.
FairSpec ==
    /\ Spec
    /\ WF_vars(out123_play_write)
    /\ WF_vars(buffer_write)
    /\ WF_vars(out123_play_cancelled)
    /\ WF_vars(buffer_loop)
    /\ WF_vars(DevicePlay)
    /\ WF_vars(DeviceSession_continue)
    /\ WF_vars(out123_continue_return)
    /\ WF_vars(DeviceSession_stop)
    /\ WF_vars(out123_stop_return)
    /\ WF_vars(DeviceSession_drop)
    /\ WF_vars(out123_drop_return)

(* ------------------------------- properties --------------------------- *)

\* What the producer submitted through out123_play: bytes 1 .. nsub.
Submitted == [i \in 1 .. nsub |-> i]
Range(f) == {f[i] : i \in DOMAIN f}

\* The bytes issued up to the call in progress (or the last one) are all
\* with the backend, those a drop or a close discarded excepted.
PendingForwarded == \A i \in 1 .. mark.nsub : i \in Range(out) \cup dropped

\* C1: in buffered mode, as long as no drop or close discarded anything, the
\* bytes handed to the backend are at every moment a prefix of the bytes the
\* producer submitted, and the rest of them is what the ring buffer holds,
\* in order: nothing is reordered, lost or duplicated.
C1_BackendGetsPrefix ==
    (bufsize > 0 /\ dropped = {}) =>
        /\ Len(out) <= nsub
        /\ \A i \in 1 .. Len(out) : out[i] = i
        /\ \A i \in 1 .. Fill : RingContents[i] = Len(out) + i
        /\ Len(out) + Fill = nsub

\* Bytes were forwarded while later ones wait in a ring buffer whose write
\* head has wrapped around.
C1_Witness ==
    /\ bufsize > 0 /\ dropped = {}
    /\ Len(out) >= 2 /\ Fill >= 1 /\ wr > bufsize

\* C2: when out123_drain returns, the ring buffer is empty and the device
\* holds nothing, so out123_buffered is 0; the playback state is the one the
\* call was issued in, a started one, so data may still be written.
C2_DrainLeavesNothingBuffered ==
    last.op = "drain" =>
        /\ out123_buffered = 0
        /\ Fill = 0
        /\ devbuf = 0
        /\ state = from
        /\ state \in StartedStates

\* A drain issued while paused, with data in the ring buffer, has returned.
C2_Witness ==
    /\ last.op = "drain"
    /\ bufsize > 0
    /\ from = "Paused"
    /\ mark.fill > 0

\* C3: directly after out123_drop returns, out123_buffered is 0 and the
\* playback state is the one the drop was issued in; the drop does not wait
\* for anything: the session owner can apply it at once and the call can
\* return as soon as it is applied.
C3_DropLeavesNothingBuffered ==
    /\ last.op = "drop" => (out123_buffered = 0 /\ state = from)
    /\ (pc = "drop" /\ sig = "drop") => ENABLED DeviceSession_drop
    /\ (pc = "drop" /\ sig = "none") => ENABLED out123_drop_return

\* The drop was issued while a write was blocked on a full ring buffer and
\* the consumer was forwarding; it has returned before the write does.
C3_Witness ==
    /\ last.op = "drop"
    /\ bufsize > 0
    /\ mark.fill = bufsize
    /\ w.active
    /\ dev = "live"

\* With OUT123_KEEP_PLAYING set, out123_play returns fewer bytes than it
\* was given only together with a recorded error code, and never more.
ShortCountMeansError ==
    (last.op = "play" /\ KeepPlaying) =>
        /\ last.ret <= last.req
        /\ last.ret < last.req => errcode # OUT123_OK

\* C4: after a successful start and with OUT123_KEEP_PLAYING set, a write of
\* whole PCM frames eventually returns, and it returns the full byte count
\* unless an error code is recorded: partial writes of the backend are
\* retried until the data is done with.
C4_PlayMovesAllOrRecordsError ==
    /\ []ShortCountMeansError
    /\ (w.active /\ KeepPlaying) ~>
          (last.op = "play" /\ (last.ret = last.req \/ errcode # OUT123_OK))

\* A direct write of more bytes than the device takes at once has returned
\* the full count, with no error: the backend's writes were partial.
C4_Witness ==
    /\ last.op = "play"
    /\ bufsize = 0
    /\ KeepPlaying
    /\ last.req > DevCap
    /\ last.ret = last.req
    /\ last.req % framesize(format) = 0
    /\ errcode = OUT123_OK

\* C5 as stated: in buffered mode pause, stop and drain are applied to the
\* consumer's device session only after every byte submitted before them has
\* been forwarded to the backend.
C5_SignalsWaitForData ==
    (bufsize > 0 /\ pc \in {"pause", "stop", "drain"} /\ sig = "none") =>
        PendingForwarded

\* C5, amended: in buffered mode stop and drain are applied only after
\* every byte submitted before them has been forwarded; pause is applied at
\* once and leaves what is not yet forwarded in the ring buffer; drop
\* discards all that is not yet forwarded.
C5_StopDrainWaitPauseDoesNot ==
    /\ (bufsize > 0 /\ pc \in {"stop", "query_stop", "drain"} /\ sig = "none")
          => (PendingForwarded /\ Fill = 0)
    /\ (bufsize > 0 /\ pc = "pause" /\ sig = "none")
          => /\ dev = "paused"
             /\ \A i \in 1 .. mark.nsub :
                   i \in Range(out) \cup Range(RingContents) \cup dropped
    /\ (bufsize > 0 /\ pc = "drop" /\ sig = "none")
          => (Fill = 0 /\ PendingForwarded)

\* A stop has been applied after the data that was in the ring buffer when
\* it was issued went to the backend.
C5_Witness ==
    /\ bufsize > 0
    /\ pc = "stop" /\ sig = "none"
    /\ mark.fill > 0
    /\ dropped = {}
    /\ Len(out) = mark.nsub

\* C6: when out123_stop, issued in Started, Playing or Paused, returns, the
\* session is in Opened, all data pending when it was issued has been handed
\* to the backend (unless a drop or close removed it), and a start is
\* accepted.
C6_StopDrainsAndOpens ==
    last.op = "stop" =>
        /\ from \in StartedStates
        /\ state = "Opened"
        /\ dev = "open"
        /\ Fill = 0
        /\ PendingForwarded
        /\ ~w.active => ENABLED (\E fmt \in Formats : out123_start(fmt))

\* A stop issued while paused, with data in the ring buffer, has returned.
C6_Witness ==
    /\ last.op = "stop"
    /\ bufsize > 0
    /\ from = "Paused"
    /\ mark.fill > 0
    /\ dropped = {}

\* C7: with a pause/continue pair at any position of the byte stream, and
\* nothing dropped, the bytes that reach the backend followed by those still
\* in the ring buffer are the submitted stream, and after a drain or a stop
\* the backend has received exactly the submitted stream, as in a run
\* without the pair; in direct and in buffered mode.
C7_PauseContinueKeepsStream ==
    (resumed >= 0 /\ dropped = {}) =>
        /\ out \o RingContents = Submitted
        /\ last.op \in {"drain", "stop"} => out = Submitted

\* A pause/continue pair between two writes, and all of it has arrived.
C7_Witness ==
    /\ resumed >= 1 /\ resumed < nsub
    /\ dropped = {}
    /\ bufsize > 0
    /\ last.op = "drain"
    /\ out = Submitted

\* The first name of the list that is among the modules that load.
FirstMatch(cands, loadable) ==
    LET hits == {i \in 1 .. Len(cands) : cands[i] \in loadable}
    IN  IF hits = {} THEN NoDriver
        ELSE cands[CHOOSE i \in hits : \A j \in hits : i <= j]

\* C8: out123_open binds the first candidate, in list order, that loads;
\* when the list is empty or no candidate loads it fails with
\* OUT123_NO_DRIVER and the handle stays Closed with no driver and no device
\* session.
C8_OpenFirstLoadable ==
    last.op = "open" =>
        IF FirstMatch(arg, env) # NoDriver
        THEN /\ last.ret = 0
             /\ state = "Opened"
             /\ driver = FirstMatch(arg, env)
             /\ dev = "open"
        ELSE /\ last.ret = OUT123_ERR
             /\ errcode = OUT123_NO_DRIVER
             /\ state = "Closed"
             /\ driver = NoDriver
             /\ dev = "closed"
             /\ format = NoFormat

\* Candidates null, dummy with only dummy loadable: the session uses dummy.
C8_Witness ==
    /\ last.op = "open"
    /\ arg = <<"null", "dummy">>
    /\ env = {"dummy"}
    /\ driver = "dummy"
    /\ state = "Opened"

\* C9: out123_start with a format the backend rejects returns a negative
\* value, records OUT123_DEV_OPEN and leaves the session in Opened with no
\* format committed; it moves Opened to Started, committing the format, only
\* when the backend accepts it. Direct and buffered.
C9_StartRejectedLeavesOpened ==
    last.op = "start" =>
        /\ from = "Opened"
        /\ IF arg.encoding \in ModuleEncodings(driver, arg.channels, arg.rate)
           THEN /\ last.ret = 0
                /\ state = "Started"
                /\ format = arg
                /\ dev = "live"
           ELSE /\ last.ret < 0
                /\ errcode = OUT123_DEV_OPEN
                /\ state = "Opened"
                /\ format = NoFormat
                /\ dev = "open"

\* A start relayed through the buffer process was rejected.
C9_Witness ==
    /\ last.op = "start"
    /\ bufsize > 0
    /\ last.ret < 0
    /\ arg.encoding = MPG123_ENC_UNSIGNED_8
    /\ driver = "null"

\* C10: out123_get_encodings implies out123_stop(): the query is made with
\* the stream stopped, and when the call returns, with the encodings or
\* with -1, the session is in Opened, whether it was Opened, Started,
\* Playing or Paused before.
C10_QueryImpliesStop ==
    /\ pc = "query" => (state = "Opened" /\ (sig = "query" => dev = "open"))
    /\ last.op = "query" =>
          /\ state = "Opened"
          /\ dev = "open"
          /\ format = NoFormat
          /\ \/ last.ret = OUT123_ERR
             \/ last.ret = OrAll(ModuleEncodings(driver, arg.channels,
                                                 arg.rate))

\* A query issued while paused has failed and left the session in Opened.
C10_Witness ==
    /\ last.op = "query"
    /\ from = "Paused"
    /\ last.ret = OUT123_ERR
    /\ state = "Opened"

\* C11: when out123_set_buffer returns, whatever the size, the playback
\* state it was called in and its result, no device is open: the handle is
\* Closed with no module loaded and no format, out123_start is not accepted
\* and out123_play finds no live device, until a new out123_open.
C11_SetBufferKillsDevice ==
    last.op = "set_buffer" =>
        /\ state = "Closed"
        /\ dev = "closed"
        /\ driver = NoDriver
        /\ format = NoFormat
        /\ ~ENABLED (\E fmt \in Formats : out123_start(fmt))
        /\ ~ENABLED (\E bytes \in 1 .. MaxBytes : out123_play(bytes))
        /\ ENABLED out123_play_not_live

\* The buffer was disabled while there was none, during direct playback.
C11_Witness ==
    /\ last.op = "set_buffer"
    /\ arg.buffer_bytes = 0
    /\ mark.bufsize = 0
    /\ from = "Playing"
    /\ state = "Closed"

\* Without a buffer there is no buffer process and no ring buffer, nothing
\* is buffered, and neither the copy into the ring buffer nor the consumer
\* loop can run: all goes the direct way.
DirectMode ==
    /\ consumers = 0
    /\ out123_buffered = 0
    /\ wr = 0 /\ rd = 0
    /\ DOMAIN mem = {}
    /\ ~ENABLED buffer_write
    /\ ~ENABLED buffer_loop

\* C12: out123_set_buffer with size zero always succeeds and leaves no
\* buffer, whatever the ring buffer held; from then on, until a set_buffer
\* with a non-zero size, the handle is in direct mode and out123_buffered
\* is 0.
C12_ZeroDisablesBuffer ==
    /\ []((last.op = "set_buffer" /\ arg.buffer_bytes = 0)
            => (last.ret = 0 /\ bufsize = 0))
    /\ [](bufsize = 0 => DirectMode)
    /\ [][(bufsize = 0 /\ bufsize' # 0)
            => (last'.op = "set_buffer" /\ arg'.buffer_bytes # 0)]_vars

\* The buffer was disabled while its ring buffer held data.
C12_Witness ==
    /\ last.op = "set_buffer"
    /\ arg.buffer_bytes = 0
    /\ mark.bufsize > 0
    /\ mark.fill > 0
    /\ out123_buffered = 0

C14_DriverReleasedOnce ==
    /\ loaded = IF driver # NoDriver THEN 1 ELSE 0
    /\ (dev # "closed") <=> (driver # NoDriver)
    /\ (state = "Closed" /\ pc \in {"idle", "deleted"}) => driver = NoDriver
    /\ last.op \in {"close", "del", "set_buffer"} => loaded = 0
    /\ pc = "deleted" => (state = "Closed" /\ loaded = 0 /\ dev = "closed")

\* A handle that had played data and was closed has been deleted: the
\* second teardown released nothing.
C14_Witness ==
    /\ last.op = "del"
    /\ pc = "deleted"
    /\ from = "Closed"
    /\ Len(out) > 0
    /\ loaded = 0

\* The stored parameters are the values last set with success.
StoreIsWritten ==
    /\ flags = written[OUT123_FLAGS]
    /\ preload = written[OUT123_PRELOAD]
    /\ gain = written[OUT123_GAIN]
    /\ verbose = written[OUT123_VERBOSE]
    /\ device_buffer = written[OUT123_DEVICEBUFFER]

\* What out123_getparam and out123_param return.
ParamResults ==
    /\ last.op = "getparam" =>
           IF arg.code \in ParamCodes
           THEN /\ last.ret = 0
                /\ written[arg.code] = IF arg.code \in FloatCodes
                                       THEN arg.fvalue ELSE arg.value
           ELSE last.ret = OUT123_ERR
    /\ last.op = "param" =>
           IF arg.code \in ParamCodes
           THEN /\ last.ret = 0
                /\ written[arg.code] = IF arg.code \in FloatCodes
                                       THEN arg.fvalue ELSE arg.value
           ELSE last.ret = OUT123_ERR

\* C15: for every parameter code, out123_getparam returns the value of the
\* most recent successful out123_param for that code (the default when
\* there was none), whatever open, close, start, stop and set_buffer calls
\* came in between: only a successful out123_param changes a stored value;
\* with an unknown code out123_param and out123_getparam fail and every
\* stored value stays as it is.
C15_ParamRoundTrip ==
    /\ [](StoreIsWritten /\ ParamResults)
    /\ [][written' # written
            => (last'.op = "param" /\ last'.ret = 0 /\ pc = "idle")]_vars
    /\ [][(last'.op = "param" /\ last'.ret = OUT123_ERR)
            => UNCHANGED <<flags, preload, gain, verbose, device_buffer>>]_vars

\* A preload set earlier is read back while a stream is started on a
\* buffered handle.
C15_Witness ==
    /\ last.op = "getparam"
    /\ arg.code = OUT123_PRELOAD
    /\ arg.fvalue = MaxParam
    /\ arg.value = 0
    /\ state = "Started"
    /\ bufsize > 0

\* The bytes the producer handed over that were neither forwarded to the
\* backend nor discarded.
Pending == {i \in 1 .. nsub : i \notin Range(out) \cup dropped}

\* C16: with a buffer, out123_buffered is exactly the number of bytes the
\* producer copied into the ring buffer and the consumer has neither
\* forwarded nor dropped; it is never negative and never above the ring
\* buffer's capacity.
C16_BufferedIsResident ==
    bufsize > 0 =>
        /\ out123_buffered = Cardinality(Pending)
        /\ Pending = RingIds
        /\ out123_buffered >= 0
        /\ out123_buffered <= bufsize

\* One byte was written into a ring buffer of two, the consumer has not
\* taken anything yet: one byte is reported.
C16_Witness ==
    /\ bufsize = RingBytes
    /\ last.op = "play"
    /\ last.ret = 1
    /\ wr = 1 /\ rd = 0
    /\ out123_buffered = 1
    /\ out123_buffered < bufsize

\* The steps of the producer: the API calls, their returns and the copy
\* into the ring buffer.
ProducerStep ==
    \/ \E cands \in CandidateLists : out123_open(cands)
    \/ out123_open_return
    \/ out123_close \/ out123_close_return
    \/ out123_del
    \/ \E fmt \in Formats : out123_start(fmt)
    \/ out123_start_return
    \/ out123_pause \/ out123_pause_return
    \/ out123_continue \/ out123_continue_return
    \/ out123_stop \/ out123_stop_return
    \/ out123_drop \/ out123_drop_return
    \/ out123_drain \/ out123_drain_return
    \/ \E bytes \in 1 .. MaxBytes : out123_play(bytes)
    \/ out123_play_not_live \/ out123_play_write \/ out123_play_error
    \/ buffer_write \/ out123_play_cancelled
    \/ \E c \in Channels, r \in Rates : out123_get_encodings(c, r)
    \/ out123_get_encodings_query \/ out123_get_encodings_return
    \/ \E value \in IntValues : out123_param_flags(value)

\* The steps of the consumer: requests applied to the device session and
\* the forwarding loop.
ConsumerStep ==
    \/ DeviceSession_open \/ DeviceSession_close \/ DeviceSession_start
    \/ DeviceSession_pause \/ DeviceSession_continue \/ DeviceSession_stop
    \/ DeviceSession_drop \/ DeviceSession_drain \/ DeviceSession_encodings
    \/ buffer_loop

\* The ring buffer is created anew or destroyed.
EnableStep ==
    \/ \E size \in {0, RingBytes} : out123_set_buffer(size)
    \/ out123_del_return

\* C17: the read head is moved by consumer steps only and the write head by
\* the producer's copy only; every producer step leaves the read head and
\* every consumer step the write head as it is, drop included, which
\* empties the buffer by moving the read head up to the write head; the
\* capacity changes only when out123_set_buffer (or out123_del) replaces
\* the buffer.
C17_SingleWriterPerIndex ==
    [][/\ ProducerStep => (rd' = rd /\ bufsize' = bufsize)
       /\ ConsumerStep => (wr' = wr /\ bufsize' = bufsize)
       /\ DeviceSession_drop => rd' = wr
       /\ rd' # rd => (ConsumerStep \/ EnableStep)
       /\ wr' # wr => (buffer_write \/ EnableStep)
       /\ bufsize' # bufsize => EnableStep]_vars

\* A drop has emptied a ring buffer that held data.
C17_Witness ==
    /\ bufsize > 0
    /\ pc = "drop" /\ sig = "none"
    /\ mark.fill > 0
    /\ wr > 0
    /\ rd = wr

\* The count of a buffered write is the number of bytes it copied into the
\* ring buffer: it starts at 0, grows with the write head, and is what the
\* call returns, never more than was asked for.
CountIsCopied ==
    /\ (~w.active /\ w'.active) => w'.done = 0
    /\ (w.active /\ bufsize > 0 /\ w'.active) => w'.done - w.done = wr' - wr
    /\ (w.active /\ bufsize > 0 /\ ~w'.active) =>
           /\ last'.op = "play"
           /\ last'.ret = w.done + (wr' - wr)
           /\ last'.ret <= w.req
           /\ last'.req = w.req

\* C18: a buffered write always returns: it waits while the ring buffer is
\* full and goes on when the consumer has made room, and a stop or a drop
\* issued meanwhile makes it return early; the count it returns is the
\* number of bytes copied into the ring buffer, at most the length given.
C18_BufferedWriteReturns ==
    /\ (w.active /\ bufsize > 0) ~> ~w.active
    /\ [][CountIsCopied]_vars
    /\ []((w.active /\ bufsize > 0) =>
            (w.done + w.left = w.req /\ (w.cancel \/ w.left > 0)))

\* A write was cut short by a stop or a drop after part of it was copied.
C18_Witness ==
    /\ last.op = "play"
    /\ bufsize > 0
    /\ last.cut
    /\ last.ret > 0
    /\ last.ret < last.req

SetBufferStep == \E size \in {0, RingBytes} : out123_set_buffer(size)

\* C19 as stated: the number of buffer processes is 1 if the last successful
\* out123_set_buffer had a non-zero size and 0 otherwise: a successful call
\* sets it by its size, a failed call and every other call leave it as the
\* last successful one set it.
C19_CountFollowsLastSuccess ==
    [][/\ SetBufferStep =>
             IF last'.ret = 0
             THEN consumers' = IF arg'.buffer_bytes > 0 THEN 1 ELSE 0
             ELSE consumers' = consumers
       /\ (~SetBufferStep /\ ~out123_del_return) => consumers' = consumers]_vars

\* C19, amended: there is one buffer process, with its ring buffer, exactly
\* while the handle has a buffer, that is when the most recent
\* out123_set_buffer had a non-zero size and succeeded; there is none after
\* a zero size and after a failed call, which has ended the previous one.
\* Every out123_set_buffer ends what is there before it starts anew: never
\* two at once, and the new ring buffer starts empty at its own capacity.
C19_OneConsumerPerBuffer ==
    /\ [](consumers = IF bufsize > 0 THEN 1 ELSE 0)
    /\ [](last.op = "set_buffer" =>
            /\ bufsize = IF last.ret = 0 THEN arg.buffer_bytes ELSE 0
            /\ wr = 0 /\ rd = 0
            /\ DOMAIN mem = 0 .. bufsize - 1)
    /\ [][consumers' # consumers => EnableStep]_vars

\* A buffer holding data was replaced by a new one.
C19_Witness ==
    /\ last.op = "set_buffer"
    /\ last.ret = 0
    /\ arg.buffer_bytes > 0
    /\ mark.bufsize > 0
    /\ mark.fill > 0
    /\ consumers = 1
    /\ Fill = 0

\* What feeding a paused stream does at once: the call is accepted, it
\* continues the stream before it moves data, and it returns with the
\* stream out of Paused and the device live; the backend gets the bytes in
\* the order they were submitted, those buffered before the pause first.
FeedingContinues ==
    /\ (state = "Paused" /\ pc = "idle" /\ ~w.active
           /\ MaxBytes - nsub >= framesize(format))
          => ENABLED (\E bytes \in 1 .. MaxBytes : out123_play(bytes))
    /\ (w.active /\ from = "Paused" /\ state = "Paused")
          => (pc = "continue" /\ w.done = 0)
    /\ (last.op = "play" /\ from = "Paused")
          => (state \in {"Started", "Playing"} /\ dev = "live")
    /\ \A i, j \in 1 .. Len(out) : i < j => out[i] < out[j]

====
